---------------------------- MODULE Spec2Model ----------------------------
(***************************************************************************)
(* A model of the local knowledge base (scripts/knowledge_base.py) and of  *)
(* the callbacks of its web UI (scripts/web_ui.py): the build, the chat    *)
(* tab with its sessions and the submit with an uploaded file.             *)
(*                                                                         *)
(* One LocalKnowledgeBase instance is modelled together with the persist   *)
(* directory it uses.  A generator (query_stream, build_kb_stream,         *)
(* query_kb_with_file_stream) takes one step per resumption: the code      *)
(* between two yields is one action.  Text is a sequence of character      *)
(* tokens, so that "".join is sequence concatenation.                      *)
(***************************************************************************)
EXTENDS Integers, Sequences, FiniteSets

(***************************************************************************)
(* Bounds of the model.                                                    *)
(***************************************************************************)
\* A new query starts only while the memory holds fewer turns than this.
MaxTurns == 2
\* Builds started in one behaviour.
MaxBuilds == 1
\* Turns beyond the history cap that the long conversation of SpecChat reaches.
MaxOver == 1

(***************************************************************************)
(* Inputs.                                                                 *)
(***************************************************************************)
Slots == {1, 2}

Questions == {"q1", "q2"}

\* The texts query and query_stream make themselves.
NotInitMsg == <<"ERR_NOT_INITIALIZED">>

ErrorMsg == <<"ERR_QUERY_FAILED">>

TimeInfo == <<"TIME">>

\* The raw chunks the model service streams for a question; an empty chunk
\* is one the service sends with no text.  The answer to "q3" is the text
\* of the failure message, as when the question asks what that message is.
Response(q) ==
    IF q = "q1" THEN << <<"a">>, <<>>, <<"b", "c">> >>
    ELSE IF q = "q3" THEN <<ErrorMsg>>
    ELSE << <<>>, <<"d">> >>

Files == {"a.txt", "b.md", "bad.pdf", "notes.csv"}

\* Path(file_path).suffix.lower() of these files.
Ext(f) ==
    CASE f = "a.txt"     -> ".txt"
      [] f = "b.md"      -> ".md"
      [] f = "bad.pdf"   -> ".pdf"
      [] f = "notes.csv" -> ".csv"
      [] OTHER           -> ""

\* The formats _load_document has a loader for.
SupportedExt == {".txt", ".pdf", ".docx", ".md", ".epub"}

\* The patterns a build lists files by: the fixed list of both builds.
DefaultFormats == {".txt", ".pdf", ".docx", ".md", ".epub"}

\* supported_formats of the configuration, when it is given.
ConfigFormats == {DefaultFormats, DefaultFormats \cup {".csv"}}

\* Whether the loader of the file's format reads the file without raising.
Loads(f) == f # "bad.pdf"

\* Chunks the splitter cuts the file's text into.
ChunkCount(f) == IF f = "a.txt" THEN 2 ELSE 1

Dirs == {"docs", "broken", "empty", "nodir"}

DirExists(d) == d # "nodir"

DirFiles(d) ==
    IF d = "docs" THEN {"a.txt", "b.md", "bad.pdf", "notes.csv"}
    ELSE IF d = "broken" THEN {"bad.pdf"}
    ELSE {}

(***************************************************************************)
(* Text.                                                                   *)
(***************************************************************************)
RECURSIVE Join(_)
\* "".join(answer_chunks)
Join(chunks) ==
    IF chunks = <<>> THEN <<>> ELSE Head(chunks) \o Join(Tail(chunks))

\* The test "if content:" of the streaming loop: an empty chunk is skipped.
IsContent(chunk) == chunk # <<>>

\* The index of the first content chunk of resp after pos, 0 when none is left.
NextContent(resp, pos) ==
    LET later == {i \in (pos + 1)..Len(resp) : IsContent(resp[i])}
    IN  IF later = {} THEN 0 ELSE CHOOSE i \in later : \A j \in later : i <= j

(***************************************************************************)
(* Conversation memory: ConversationBufferMemory, a list of messages.      *)
(***************************************************************************)
HumanMessage(q) == [type |-> "human", content |-> <<q>>]

AIMessage(text) == [type |-> "ai", content |-> text]

\* add_user_message(question); add_ai_message(full_answer)
AddTurn(mem, q, answer) == mem \o <<HumanMessage(q), AIMessage(answer)>>

\* The slice chat_history[-6:] of the streaming path.
HistoryCap == 6

RecentHistory(mem) ==
    IF Len(mem) <= HistoryCap THEN mem
    ELSE SubSeq(mem, Len(mem) - HistoryCap + 1, Len(mem))

\* The blocking chain reads the whole buffer of the memory it was given.
ChainHistory(mem) == mem

\* The messages a step added to the memory.
Delta(old, new) ==
    IF Len(new) >= Len(old) /\ SubSeq(new, 1, Len(old)) = old
    THEN SubSeq(new, Len(old) + 1, Len(new))
    ELSE <<[type |-> "rewritten", content |-> <<>>]>>

(***************************************************************************)
(* State.                                                                  *)
(***************************************************************************)
VARIABLES
    memory,       \* self.memory.chat_memory.messages
    vectorstore,  \* self.vectorstore: NoneVS or a handle on the persist directory
    qa_chain,     \* self.qa_chain: NoneVS or the handle its retriever was made from
    disk,         \* the persist directory: whether it and its chroma.sqlite3 exist
    stores,       \* the collection of each generation of the persist directory
    nbuilds,      \* builds started so far
    streams,      \* the query_stream generators, one for each consumer
    qres,         \* what the call of query that just returned gave back
    bld,          \* the build_kb_stream generator
    lastBuild,    \* what the build that just finished did
    chat,         \* the loop of chat
    ui            \* chat_state of each UI session: the pairs its chatbot shows

vars == <<memory, vectorstore, qa_chain, disk, stores, nbuilds, streams, qres,
          bld, lastBuild, chat, ui>>

NoneVS == [ok |-> FALSE, gen |-> 0]

Handle(g) == [ok |-> TRUE, gen |-> g]

\* The generation of the persist directory that is on disk now.
CurGen == Len(stores)

\* A handle opened on a persist directory that was removed since.
Dangling(h) == h.ok /\ h.gen < CurGen

\* The entries a handle's collection holds.
Entries(h) == IF h.ok THEN stores[h.gen] ELSE {}

NoPrompt == [built |-> FALSE, context |-> {}, history |-> <<>>, question |-> ""]

\* prompt_template.format(context=..., chat_history=..., question=...)
Prompt(docs, history, q) ==
    [built |-> TRUE, context |-> docs, history |-> history, question |-> q]

\* The response of the model service to a prompt.  The service is
\* deterministic: it answers by the prompt it is given, and a prompt that
\* carries turns older than the window of the streaming path is answered
\* from them.
ResponseTo(p) ==
    IF Len(p.history) > HistoryCap THEN << <<"e">>, <<"a">> >>
    ELSE Response(p.question)

\* The blocking call of the model service: the whole answer at once.
Generate(p) == Join(ResponseTo(p))

\* A query_stream generator: its place (pc), its locals (the question q, the
\* chunks of the response consumed pos, answer_chunks acc, docs, prompt), the
\* items it has yielded (out), the messages it has added to the memory
\* (appended) and whether it retrieved through a handle on a removed
\* persist directory (deleted).
IdleStream ==
    [pc |-> "idle", q |-> "", pos |-> 0, acc |-> <<>>, out |-> <<>>,
     docs |-> {}, prompt |-> NoPrompt, appended |-> <<>>, deleted |-> FALSE]

\* The return value of query, its prompt and the messages the call added to
\* the memory; NoResult again after any other step.
NoResult ==
    [outcome |-> "none", q |-> "", answer |-> <<>>, sources |-> {},
     prompt |-> NoPrompt, appended |-> <<>>]

IdleBuild ==
    [pc |-> "idle", dir |-> "", rebuild |-> FALSE, files |-> {},
     documents |-> {}, splits |-> {}, id |-> 0, before |-> {}, existed |-> FALSE]

\* What a build did: its entry point, arguments and outcome, whether a
\* persisted collection existed when it started, the entries of the
\* collection before and after it and the chunks it made; NoBuild again
\* after any other step.
NoBuild ==
    [kind |-> "none", dir |-> "", rebuild |-> FALSE, outcome |-> "none",
     id |-> 0, existed |-> FALSE, before |-> {}, after |-> {}, splits |-> {}]

\* The loop of chat: its place, the line it read last, whether it has read
\* clear and no question since, and whether a clear has emptied a memory
\* that held turns.
ChatLoop == [pc |-> "running", line |-> "", cleared |-> FALSE, dropped |-> FALSE]

(***************************************************************************)
(* Loading, splitting and the vector store.                                *)
(***************************************************************************)
\* LoadDocument with every file given to the text loader, whatever its
\* extension.
LoadDocumentAnyFormat(f) == IF Loads(f) THEN {[source |-> f]} ELSE {}

\* _load_document: the documents of one file, none when the extension has
\* no loader or the loader raises.
LoadDocument(f) ==
    IF Ext(f) \in SupportedExt /\ Loads(f) THEN {[source |-> f]} ELSE {}

\* LoadDocuments with the first failing file ending the loop with nothing.
LoadDocumentsAbort(files) ==
    IF \E f \in files : LoadDocument(f) = {} THEN {}
    ELSE UNION {LoadDocument(f) : f \in files}

\* The loop of a build over the files it found.
LoadDocuments(files) == UNION {LoadDocument(f) : f \in files}

\* text_splitter.split_documents
Split(documents) ==
    UNION {{[source |-> d.source, pos |-> p] : p \in 1..ChunkCount(d.source)} :
           d \in documents}

\* The entries Chroma stores for the chunks of build id: each gets a fresh id.
Stored(splits, id) ==
    {[source |-> c.source, pos |-> c.pos, build |-> id] : c \in splits}

\* Chroma.from_documents on the persist directory: the chunks are added to
\* the collection the directory holds.
FromDocuments(store, splits, id) == store \cup Stored(splits, id)

\* glob over the directory for each pattern of a list.
GlobWith(d, patterns) ==
    IF DirExists(d) THEN {f \in DirFiles(d) : Ext(f) \in patterns} ELSE {}

\* glob with the fixed list of patterns.
Glob(d) == GlobWith(d, DefaultFormats)

OnDisk == [exists |-> TRUE, marker |-> TRUE]

NoDisk == [exists |-> FALSE, marker |-> FALSE]

\* os.path.exists(persist_dir) and os.path.exists(persist_dir/chroma.sqlite3)
HasPersisted == disk.exists /\ disk.marker

(***************************************************************************)
(* Construction: __init__ and _try_load_existing_knowledge_base, over a    *)
(* persist directory that is absent, present without chroma.sqlite3, or    *)
(* left by a build of an earlier run.                                      *)
(***************************************************************************)
PriorEntries == Stored(Split(LoadDocuments(Glob("docs"))), 0)

Init ==
    /\ \E prior \in {"absent", "nomarker", "persisted"} :
          /\ disk = [exists |-> prior # "absent", marker |-> prior = "persisted"]
          /\ stores = <<IF prior = "persisted" THEN PriorEntries ELSE {}>>
          /\ vectorstore = IF prior = "persisted" THEN Handle(1) ELSE NoneVS
    /\ memory = <<>>
    /\ qa_chain = NoneVS
    /\ nbuilds = 0
    /\ streams = [s \in Slots |-> IdleStream]
    /\ qres = NoResult
    /\ bld = IdleBuild
    /\ lastBuild = NoBuild
    /\ chat = ChatLoop
    /\ ui = [s \in Slots |-> <<>>]

(***************************************************************************)
(* Queries.                                                                *)
(***************************************************************************)
\* _create_qa_chain: the chain and its retriever are made once, from the
\* vector store of that moment.
CreateQaChain == IF qa_chain.ok THEN qa_chain ELSE vectorstore

\* What a generator yields: the pair (text, docs); kind names the yield
\* statement it comes from and is not seen by the consumer.
Item(kind, text, docs) == [kind |-> kind, text |-> text, docs |-> docs]

\* The pair the consumer of a generator receives.
Visible(it) == [text |-> it.text, docs |-> it.docs]

\* The texts of the items a generator has yielded, in order.
AllTexts(out) == [i \in 1..Len(out) |-> out[i].text]

\* The prompt the chain of query gives the model service for a question.
QueryPrompt(q) == Prompt(Entries(CreateQaChain), ChainHistory(memory), q)

\* The prompt query_stream gives the model service for a question.
StreamPrompt(q) == Prompt(Entries(vectorstore), RecentHistory(memory), q)

\* The text query returns for a question: the answer and the time.
QueryText(q) == Generate(QueryPrompt(q)) \o TimeInfo

\* query with self.vectorstore None.
QueryUninit(q) ==
    /\ vectorstore = NoneVS
    /\ qres' = [outcome |-> "uninit", q |-> q, answer |-> NotInitMsg,
                sources |-> {}, prompt |-> NoPrompt, appended |-> <<>>]
    /\ UNCHANGED <<memory, vectorstore, qa_chain, disk,
                   stores, nbuilds, streams, bld>>
    /\ lastBuild' = NoBuild

\* QueryOk with the question stored in the collection as an entry.
QueryOkIndexing(q) ==
    /\ vectorstore # NoneVS
    /\ qa_chain' = CreateQaChain
    /\ memory' = AddTurn(memory, q, Generate(QueryPrompt(q)))
    /\ qres' = [outcome |-> "ok", q |-> q, answer |-> QueryText(q),
                sources |-> QueryPrompt(q).context, prompt |-> QueryPrompt(q),
                appended |-> Delta(memory, memory')]
    /\ stores' = [stores EXCEPT ![vectorstore.gen] =
                     @ \cup {[source |-> q, pos |-> 0, build |-> 0]}]
    /\ UNCHANGED <<vectorstore, disk, nbuilds, streams, bld>>
    /\ lastBuild' = NoBuild

\* query: the chain retrieves, generates and saves the turn to its memory.
QueryOk(q) ==
    /\ vectorstore # NoneVS
    /\ qa_chain' = CreateQaChain
    /\ LET prompt == QueryPrompt(q)
           answer == Generate(prompt)
       IN  /\ memory' = AddTurn(memory, q, answer)
           /\ qres' = [outcome |-> "ok", q |-> q, answer |-> QueryText(q),
                       sources |-> prompt.context, prompt |-> prompt,
                       appended |-> Delta(memory, memory')]
    /\ UNCHANGED <<vectorstore, disk, stores, nbuilds, streams, bld>>
    /\ lastBuild' = NoBuild

\* The memory after the chain raised: save_context was not reached.
MemoryAfterChainError(mem, q) == mem

\* query: the chain raised (retriever or model service); the except branch.
QueryError(q) ==
    /\ vectorstore # NoneVS
    /\ qa_chain' = CreateQaChain
    /\ memory' = MemoryAfterChainError(memory, q)
    /\ qres' = [outcome |-> "error", q |-> q, answer |-> ErrorMsg,
                sources |-> {}, prompt |-> NoPrompt,
                appended |-> Delta(memory, memory')]
    /\ UNCHANGED <<vectorstore, disk, stores, nbuilds, streams, bld>>
    /\ lastBuild' = NoBuild

Query(q) == QueryUninit(q) \/ QueryOk(q) \/ QueryError(q)

\* self.memory.clear() of chat and of clear_chat.
Clear ==
    /\ memory' = <<>>
    /\ UNCHANGED <<vectorstore, qa_chain, disk,
                   stores, nbuilds, streams, bld>>
    /\ qres' = NoResult
    /\ lastBuild' = NoBuild

(***************************************************************************)
(* query_stream: one action per resumption of the generator.               *)
(***************************************************************************)
FreeStates == {"idle", "abandoned"}

\* EmitChunk with the memory updated at every increment.
EmitChunkRecording(s, r, i) ==
    /\ memory' = memory \o <<AIMessage(ResponseTo(r.prompt)[i])>>
    /\ streams' = [streams EXCEPT ![s] =
          [r EXCEPT !.pc = "streaming", !.pos = i,
                    !.acc = Append(@, ResponseTo(r.prompt)[i]),
                    !.out = Append(@, Item("content", ResponseTo(r.prompt)[i],
                                              r.docs)),
                    !.appended = @ \o Delta(memory, memory')]]

\* The loop body for content chunk i of the response: collect it, yield it.
EmitChunk(s, r, i) ==
    /\ streams' = [streams EXCEPT ![s] =
          [r EXCEPT !.pc = "streaming", !.pos = i,
                    !.acc = Append(@, ResponseTo(r.prompt)[i]),
                    !.out = Append(@, Item("content", ResponseTo(r.prompt)[i],
                                              r.docs))]]
    /\ UNCHANGED memory

\* After the loop: the turn is added to the memory and the time is yielded.
Complete(s, r) ==
    /\ memory' = AddTurn(memory, r.q, Join(r.acc))
    /\ streams' = [streams EXCEPT ![s] =
          [r EXCEPT !.pc = "completed", !.pos = Len(ResponseTo(r.prompt)),
                    !.out = Append(@, Item("time", TimeInfo, r.docs)),
                    !.appended = @ \o Delta(memory, memory')]]

\* The generator runs from its place in the response to its next yield.
Run(s, r) ==
    LET i == NextContent(ResponseTo(r.prompt), r.pos)
    IN  IF i # 0 THEN EmitChunk(s, r, i) ELSE Complete(s, r)

\* Fail with the partial answer saved as a turn.
FailRecording(s, r) ==
    /\ memory' = AddTurn(memory, r.q, Join(r.acc))
    /\ streams' = [streams EXCEPT ![s] =
          [r EXCEPT !.pc = "failed", !.out = Append(@, Item("error", ErrorMsg, {})),
                    !.appended = @ \o Delta(memory, memory')]]

\* Fail with the question added to the memory before the generation, as a
\* path that records the user message first would leave it.
FailKeepsQuestion(s, r) ==
    /\ memory' = memory \o <<HumanMessage(r.q)>>
    /\ streams' = [streams EXCEPT ![s] =
          [r EXCEPT !.pc = "failed", !.out = Append(@, Item("error", ErrorMsg, {})),
                    !.appended = @ \o Delta(memory, memory')]]

\* The except branch: the error message is yielded.
Fail(s, r) ==
    /\ streams' = [streams EXCEPT ![s] =
          [r EXCEPT !.pc = "failed", !.out = Append(@, Item("error", ErrorMsg, {}))]]
    /\ UNCHANGED memory

\* StreamUninit without the test of self.vectorstore: the prompt is built
\* over no document and the model service is called.
StreamUninitGenerates(s, q) ==
    /\ streams[s].pc \in FreeStates
    /\ vectorstore = NoneVS
    /\ Run(s, [IdleStream EXCEPT !.q = q,
                                 !.prompt = Prompt({}, RecentHistory(memory), q)])
    /\ UNCHANGED <<vectorstore, qa_chain, disk, stores, nbuilds, bld>>
    /\ qres' = NoResult
    /\ UNCHANGED chat
    /\ lastBuild' = NoBuild

\* First resumption with self.vectorstore None.
StreamUninit(s, q) ==
    /\ streams[s].pc \in FreeStates
    /\ vectorstore = NoneVS
    /\ streams' = [streams EXCEPT ![s] =
          [IdleStream EXCEPT !.pc = "uninit", !.q = q,
                             !.out = <<Item("uninit", NotInitMsg, {})>>]]
    /\ UNCHANGED <<memory, vectorstore, qa_chain,
                   disk, stores, nbuilds, bld>>
    /\ qres' = NoResult
    /\ UNCHANGED chat
    /\ lastBuild' = NoBuild

\* First resumption: retrieval, the prompt, then the loop to its first yield;
\* or the retriever or the model service raises.
StreamStart(s, q) ==
    /\ streams[s].pc \in FreeStates
    /\ vectorstore # NoneVS
    /\ qa_chain' = CreateQaChain
    /\ LET r0 == [IdleStream EXCEPT !.q = q, !.deleted = Dangling(vectorstore)]
           r1 == [r0 EXCEPT !.docs = Entries(vectorstore),
                            !.prompt = StreamPrompt(q)]
       IN  \/ Run(s, r1)
           \/ Fail(s, r1)
           \/ Fail(s, r0)
    /\ UNCHANGED <<vectorstore, disk, stores, nbuilds, bld>>
    /\ qres' = NoResult
    /\ UNCHANGED chat
    /\ lastBuild' = NoBuild

\* A later resumption: the loop goes on to its next yield.
StreamNext(s) ==
    /\ streams[s].pc = "streaming"
    /\ Run(s, streams[s])
    /\ UNCHANGED <<vectorstore, qa_chain, disk, stores, nbuilds, bld>>
    /\ qres' = NoResult
    /\ UNCHANGED chat
    /\ lastBuild' = NoBuild

\* A later resumption in which the model service raises.
StreamRaise(s) ==
    /\ streams[s].pc = "streaming"
    /\ Fail(s, streams[s])
    /\ UNCHANGED <<vectorstore, qa_chain, disk, stores, nbuilds, bld>>
    /\ qres' = NoResult
    /\ UNCHANGED chat
    /\ lastBuild' = NoBuild

\* The generator returns after its last item (pulled once more, or closed).
StreamFinish(s) ==
    /\ streams[s].pc \in {"uninit", "failed", "completed"}
    /\ streams' = [streams EXCEPT ![s] = IdleStream]
    /\ UNCHANGED <<memory, vectorstore, qa_chain,
                   disk, stores, nbuilds, bld>>
    /\ qres' = NoResult
    /\ UNCHANGED chat
    /\ lastBuild' = NoBuild

\* StreamAbandon with the turn saved when the generator is closed, as a
\* finally block around the loop would.
StreamAbandonFlush(s) ==
    /\ streams[s].pc = "streaming"
    /\ memory' = AddTurn(memory, streams[s].q, Join(streams[s].acc))
    /\ streams' = [streams EXCEPT ![s] =
          [IdleStream EXCEPT !.pc = "abandoned", !.q = streams[s].q,
                             !.out = streams[s].out,
                             !.appended = streams[s].appended
                                            \o Delta(memory, memory')]]
    /\ UNCHANGED <<vectorstore, qa_chain, disk, stores, nbuilds, bld>>
    /\ qres' = NoResult
    /\ UNCHANGED chat
    /\ lastBuild' = NoBuild

\* The consumer drops the generator while it is suspended at a content
\* yield: GeneratorExit is raised there, which "except Exception" lets pass.
StreamAbandon(s) ==
    /\ streams[s].pc = "streaming"
    /\ streams' = [streams EXCEPT ![s] =
          [IdleStream EXCEPT !.pc = "abandoned", !.q = streams[s].q,
                             !.out = streams[s].out,
                             !.appended = streams[s].appended]]
    /\ UNCHANGED <<memory, vectorstore, qa_chain,
                   disk, stores, nbuilds, bld>>
    /\ qres' = NoResult
    /\ UNCHANGED chat
    /\ lastBuild' = NoBuild

(***************************************************************************)
(* build_knowledge_base: one blocking call.                                *)
(***************************************************************************)
Finished(kind, d, rebuild, outcome, id, existed, before, after, splits) ==
    [kind |-> kind, dir |-> d, rebuild |-> rebuild, outcome |-> outcome,
     id |-> id, existed |-> existed, before |-> before, after |-> after,
     splits |-> splits]

\* The persist directory exists and rebuild is false: the collection is opened.
BuildOpen(d, rebuild) ==
    /\ disk.exists /\ ~rebuild
    /\ vectorstore' = Handle(CurGen)
    /\ disk' = OnDisk
    /\ lastBuild' = Finished("kb", d, rebuild, "opened", nbuilds + 1,
                             HasPersisted, stores[CurGen], stores[CurGen], {})
    /\ UNCHANGED stores

\* BuildIngest with the index dropped before the scan: a build that finds
\* no file or loads no document leaves the instance without an index.
BuildIngestDropping(d, rebuild) ==
    /\ ~(disk.exists /\ ~rebuild)
    /\ \E patterns \in ConfigFormats :
       LET all_files == GlobWith(d, patterns)
           documents == LoadDocuments(all_files)
           splits    == Split(documents)
           id        == nbuilds + 1
       IN  IF all_files = {} \/ documents = {}
           THEN /\ lastBuild' = Finished("kb", d, rebuild,
                                   IF all_files = {} THEN "nofiles" ELSE "nodocs",
                                   id, HasPersisted, stores[CurGen],
                                   stores[CurGen], {})
                /\ vectorstore' = NoneVS
                /\ UNCHANGED <<disk, stores>>
           ELSE /\ stores' = [stores EXCEPT
                                ![CurGen] = FromDocuments(@, splits, id)]
                /\ disk' = OnDisk
                /\ vectorstore' = Handle(CurGen)
                /\ lastBuild' = Finished("kb", d, rebuild, "built", id,
                                         HasPersisted, stores[CurGen],
                                         stores'[CurGen], splits)

\* Otherwise the documents are loaded, split and added to the collection;
\* the call returns early when no file is found or no document is loaded.
BuildIngest(d, rebuild) ==
    /\ ~(disk.exists /\ ~rebuild)
    /\ \E patterns \in ConfigFormats :
       LET all_files == GlobWith(d, patterns)
           documents == LoadDocuments(all_files)
           splits    == Split(documents)
           id        == nbuilds + 1
       IN  IF all_files = {} \/ documents = {}
           THEN /\ lastBuild' = Finished("kb", d, rebuild,
                                   IF all_files = {} THEN "nofiles" ELSE "nodocs",
                                   id, HasPersisted, stores[CurGen],
                                   stores[CurGen], {})
                /\ UNCHANGED <<vectorstore, disk, stores>>
           ELSE /\ stores' = [stores EXCEPT
                                ![CurGen] = FromDocuments(@, splits, id)]
                /\ disk' = OnDisk
                /\ vectorstore' = Handle(CurGen)
                /\ lastBuild' = Finished("kb", d, rebuild, "built", id,
                                         HasPersisted, stores[CurGen],
                                         stores'[CurGen], splits)

BuildKnowledgeBase(d, rebuild) ==
    /\ BuildOpen(d, rebuild) \/ BuildIngest(d, rebuild)
    /\ nbuilds' = nbuilds + 1
    /\ UNCHANGED <<memory, qa_chain, streams, bld>>
    /\ qres' = NoResult
    /\ UNCHANGED <<chat, ui>>

(***************************************************************************)
(* build_kb_stream: the generator of the UI.  Yields that only report      *)
(* progress are merged into the step before them.                          *)
(***************************************************************************)
\* The directory path is empty or does not exist: the error is yielded.
BuildBadDir(d, rebuild) ==
    /\ bld.pc = "idle"
    /\ ~DirExists(d)
    /\ nbuilds' = nbuilds + 1
    /\ lastBuild' = Finished("ui", d, rebuild, "baddir", nbuilds + 1,
                             HasPersisted, stores[CurGen], stores[CurGen], {})
    /\ UNCHANGED <<memory, vectorstore, qa_chain,
                   disk, stores, streams, bld>>
    /\ qres' = NoResult
    /\ UNCHANGED <<chat, ui>>

\* The files of the directory are listed.
BuildStart(d, rebuild) ==
    /\ bld.pc = "idle"
    /\ DirExists(d)
    /\ nbuilds' = nbuilds + 1
    /\ bld' = [IdleBuild EXCEPT !.pc = "scanned", !.dir = d,
                                !.rebuild = rebuild, !.files = Glob(d),
                                !.id = nbuilds + 1,
                                !.before = stores[CurGen],
                                !.existed = HasPersisted]
    /\ UNCHANGED <<memory, vectorstore, qa_chain, disk, stores, streams>>
    /\ qres' = NoResult
    /\ UNCHANGED <<chat, ui>>
    /\ lastBuild' = NoBuild

\* The loop over the files: each is loaded, a failing one adds nothing.
BuildLoad ==
    /\ bld.pc = "scanned"
    /\ bld' = [bld EXCEPT !.pc = "loaded",
                          !.documents = LoadDocuments(bld.files)]
    /\ UNCHANGED <<memory, vectorstore, qa_chain,
                   disk, stores, nbuilds, streams>>
    /\ qres' = NoResult
    /\ UNCHANGED <<chat, ui>>
    /\ lastBuild' = NoBuild

\* The documents are split.
BuildSplit ==
    /\ bld.pc = "loaded"
    /\ bld' = [bld EXCEPT !.pc = "split", !.splits = Split(bld.documents)]
    /\ UNCHANGED <<memory, vectorstore, qa_chain,
                   disk, stores, nbuilds, streams>>
    /\ qres' = NoResult
    /\ UNCHANGED <<chat, ui>>
    /\ lastBuild' = NoBuild

\* rebuild and the persist directory exists: shutil.rmtree, then a yield.
BuildDelete ==
    /\ bld.pc = "split"
    /\ bld.rebuild /\ disk.exists
    /\ disk' = NoDisk
    /\ stores' = Append(stores, {})
    /\ bld' = [bld EXCEPT !.pc = "deleted"]
    /\ UNCHANGED <<memory, vectorstore, qa_chain, nbuilds, streams>>
    /\ qres' = NoResult
    /\ UNCHANGED <<chat, ui>>
    /\ lastBuild' = NoBuild

\* The step of Chroma.from_documents may be taken.
AtCreate ==
    \/ bld.pc = "deleted"
    \/ bld.pc = "split" /\ ~(bld.rebuild /\ disk.exists)

\* Chroma.from_documents, the assignment of self.kb.vectorstore and the
\* closing messages.
BuildCreate ==
    /\ AtCreate
    /\ stores' = [stores EXCEPT ![CurGen] = FromDocuments(@, bld.splits, bld.id)]
    /\ disk' = OnDisk
    /\ vectorstore' = Handle(CurGen)
    /\ lastBuild' = Finished("ui", bld.dir, bld.rebuild, "built", bld.id,
                             bld.existed, bld.before, stores'[CurGen],
                             bld.splits)
    /\ bld' = IdleBuild
    /\ UNCHANGED <<memory, qa_chain, nbuilds, streams>>
    /\ qres' = NoResult
    /\ UNCHANGED <<chat, ui>>

\* Chroma.from_documents raises (the embedding model, the store): the
\* except branch yields the failure and self.kb.vectorstore keeps its value.
BuildFail ==
    /\ AtCreate
    /\ lastBuild' = Finished("ui", bld.dir, bld.rebuild, "failed", bld.id,
                             bld.existed, bld.before, stores[CurGen],
                             bld.splits)
    /\ bld' = IdleBuild
    /\ UNCHANGED <<memory, vectorstore, qa_chain,
                   disk, stores, nbuilds, streams>>
    /\ qres' = NoResult
    /\ UNCHANGED <<chat, ui>>

(***************************************************************************)
(* The specifications.                                                     *)
(***************************************************************************)
\* A new query may start while the memory holds fewer than limit turns.
CanAsk(limit) == Len(memory) < 2 * limit

\* A new build may start.
CanBuild == nbuilds < MaxBuilds

(***************************************************************************)
(* chat: the loop of the command line, one action per line read.  A line   *)
(* is one of Lines; lower() and strip() are given by their values on them. *)
(***************************************************************************)
Lines == {"exit", "Quit", "clear", "CLEAR", "", "  ", "q1", "q2"}

\* question.lower()
Lower(line) ==
    CASE line = "Quit"  -> "quit"
      [] line = "CLEAR" -> "clear"
      [] OTHER          -> line

\* question.strip()
Strip(line) == IF line = "  " THEN "" ELSE line

ExitTokens == {"exit", "quit"}

ClearTokens == {"clear"}

IsExit(line) == Lower(line) \in ExitTokens

\* IsClear without lower(): only the exact token is a command.
IsClearExact(line) == line \in ClearTokens

IsClear(line) == Lower(line) \in ClearTokens

IsBlank(line) == Strip(line) = ""

\* exit or quit: the loop ends.
ChatExit(line) ==
    /\ chat.pc = "running"
    /\ IsExit(line)
    /\ chat' = [chat EXCEPT !.pc = "ended", !.line = line]
    /\ UNCHANGED <<memory, vectorstore, qa_chain, disk, stores, nbuilds,
                   streams, bld>>
    /\ qres' = NoResult
    /\ UNCHANGED ui
    /\ lastBuild' = NoBuild

\* clear: the memory is emptied and the loop reads on.
ChatClear(line) ==
    /\ chat.pc = "running"
    /\ ~IsExit(line) /\ IsClear(line)
    /\ Clear
    /\ chat' = [chat EXCEPT !.line = line, !.cleared = TRUE,
                            !.dropped = @ \/ memory # <<>>]
    /\ UNCHANGED ui

\* A blank line: the loop reads on.
ChatSkip(line) ==
    /\ chat.pc = "running"
    /\ ~IsExit(line) /\ ~IsClear(line) /\ IsBlank(line)
    /\ chat' = [chat EXCEPT !.line = line]
    /\ UNCHANGED <<memory, vectorstore, qa_chain, disk, stores, nbuilds,
                   streams, bld>>
    /\ qres' = NoResult
    /\ UNCHANGED ui
    /\ lastBuild' = NoBuild

\* Any other line is the question of a query.
ChatAsk(line, limit) ==
    /\ chat.pc = "running"
    /\ ~IsExit(line) /\ ~IsClear(line) /\ ~IsBlank(line)
    /\ CanAsk(limit)
    /\ Query(line)
    /\ chat' = [chat EXCEPT !.line = line, !.cleared = FALSE]
    /\ UNCHANGED ui

\* KeyboardInterrupt while the loop waits for a line: the loop ends.
ChatInterrupt ==
    /\ chat.pc = "running"
    /\ chat' = [chat EXCEPT !.pc = "ended", !.line = "^C"]
    /\ UNCHANGED <<memory, vectorstore, qa_chain, disk, stores, nbuilds,
                   streams, bld>>
    /\ qres' = NoResult
    /\ UNCHANGED ui
    /\ lastBuild' = NoBuild

(***************************************************************************)
(* The chat tab of the web UI.  Every browser session has its own          *)
(* chat_state and calls the one KnowledgeBaseUI, whose kb holds the one    *)
(* memory.  Session s drives the query_stream generator streams[s]; the    *)
(* yields of query_kb_with_file_stream that only show progress are merged  *)
(* into the step after them.                                               *)
(***************************************************************************)
\* The questions a session asks.  Each session has its own, so that a turn
\* of the memory names the session that recorded it.
SessionQuestions(s) == IF s = 1 THEN {"q1"} ELSE {"q2"}

\* A pair of chat_state: the file and the question of the user side, and the
\* text of the reply.
Pair(f, q, bot) == [file |-> f, q |-> q, bot |-> bot]

Progress == <<"PROGRESS">>

\* The test "**生成时间**" in current_answer.
HasTime(text) == \E i \in 1..Len(text) : text[i] = TimeInfo[1]

\* The reply shown for the items received so far.
Display(out) ==
    LET current_answer == Join(AllTexts(out))
    IN  IF HasTime(current_answer) THEN current_answer
        ELSE current_answer \o Progress

\* history[-1] = (question, ...)
SetReply(history, bot) ==
    [history EXCEPT ![Len(history)] = [@ EXCEPT !.bot = bot]]

\* Submit of a question without a file: the pair is appended and the
\* generator of query_stream is run to its first item.
UiAsk(s, q) ==
    /\ Len(ui[s]) < MaxTurns
    /\ StreamUninit(s, q) \/ StreamStart(s, q)
    /\ ui' = [ui EXCEPT ![s] = Append(@, Pair("", q, Display(streams'[s].out)))]

\* The next item of query_stream is received and shown.
UiNext(s) ==
    /\ StreamNext(s) \/ StreamRaise(s)
    /\ ui' = [ui EXCEPT ![s] = SetReply(@, Display(streams'[s].out))]

\* query_stream has returned: the loop and the callback end.
UiFinish(s) ==
    /\ StreamFinish(s)
    /\ UNCHANGED ui

\* The session goes away while its callback is suspended.
UiAbandon(s) ==
    /\ StreamAbandon(s)
    /\ UNCHANGED ui

\* clear_chat of session s, while no callback of the session is running:
\* the memory of kb is cleared and the session's chat_state becomes [].
ClearChat(s) ==
    /\ streams[s].pc \in FreeStates
    /\ Clear
    /\ ui' = [ui EXCEPT ![s] = <<>>]
    /\ UNCHANGED chat

(***************************************************************************)
(* Submit with an uploaded file: query_kb_with_file_stream reads the file  *)
(* with _load_document and asks the model service about its content,       *)
(* without retrieval and without the memory.  The record streams[s] holds  *)
(* the locals of the callback of session s.                                *)
(***************************************************************************)
\* The questions typed with a file; the box may be left empty.
UploadQuestions == {"", "q1"}

FileFailedMsg == <<"ERR_FILE_LOAD_FAILED">>

UploadErrorMsg == <<"ERR_UI_QUERY_FAILED">>

Generating == <<"GENERATING">>

\* _load_document returns nothing: the reply says so and the callback ends.
UploadFail(s, f, q) ==
    /\ streams[s].pc \in FreeStates
    /\ Len(ui[s]) < MaxTurns
    /\ LoadDocument(f) = {}
    /\ ui' = [ui EXCEPT ![s] = Append(@, Pair(f, q, FileFailedMsg))]
    /\ UNCHANGED <<memory, vectorstore, qa_chain, disk, stores, nbuilds,
                   streams, bld, chat>>
    /\ qres' = NoResult
    /\ lastBuild' = NoBuild

\* The file is read: the prompt is made from its content.
UploadStart(s, f, q) ==
    /\ streams[s].pc \in FreeStates
    /\ Len(ui[s]) < MaxTurns
    /\ LoadDocument(f) # {}
    /\ streams' = [streams EXCEPT ![s] =
          [IdleStream EXCEPT !.pc = "file_streaming", !.q = q,
                             !.prompt = Prompt(LoadDocument(f), <<>>, q)]]
    /\ ui' = [ui EXCEPT ![s] = Append(@, Pair(f, q, Generating))]
    /\ UNCHANGED <<memory, vectorstore, qa_chain, disk, stores, nbuilds,
                   bld, chat>>
    /\ qres' = NoResult
    /\ lastBuild' = NoBuild

\* The next chunk of the response, with or without text, is shown.
UploadNext(s) ==
    /\ streams[s].pc = "file_streaming"
    /\ streams[s].pos < Len(ResponseTo(streams[s].prompt))
    /\ LET chunk == ResponseTo(streams[s].prompt)[streams[s].pos + 1]
           acc   == IF IsContent(chunk) THEN Append(streams[s].acc, chunk)
                                        ELSE streams[s].acc
       IN  /\ streams' = [streams EXCEPT ![s] =
                 [@ EXCEPT !.pos = @ + 1, !.acc = acc]]
           /\ ui' = [ui EXCEPT ![s] = SetReply(@, Join(acc) \o Progress)]
    /\ UNCHANGED <<memory, vectorstore, qa_chain, disk, stores, nbuilds,
                   bld, chat>>
    /\ qres' = NoResult
    /\ lastBuild' = NoBuild

\* The response has ended: the answer is shown with the time.
UploadEnd(s) ==
    /\ streams[s].pc = "file_streaming"
    /\ streams[s].pos = Len(ResponseTo(streams[s].prompt))
    /\ streams' = [streams EXCEPT ![s] = IdleStream]
    /\ ui' = [ui EXCEPT ![s] =
          IF HasTime(Join(streams[s].acc)) THEN @
          ELSE SetReply(@, Join(streams[s].acc) \o TimeInfo)]
    /\ UNCHANGED <<memory, vectorstore, qa_chain, disk, stores, nbuilds,
                   bld, chat>>
    /\ qres' = NoResult
    /\ lastBuild' = NoBuild

\* The model service raises: the outer except branch shows the failure.
UploadRaise(s) ==
    /\ streams[s].pc = "file_streaming"
    /\ streams' = [streams EXCEPT ![s] = IdleStream]
    /\ ui' = [ui EXCEPT ![s] = SetReply(@, UploadErrorMsg)]
    /\ UNCHANGED <<memory, vectorstore, qa_chain, disk, stores, nbuilds,
                   bld, chat>>
    /\ qres' = NoResult
    /\ lastBuild' = NoBuild

(***************************************************************************)
(* The blocking submit callbacks query_kb and handle_submit: one action    *)
(* per call, on the chat_state of session s.                               *)
(***************************************************************************)
FileErrorMsg == <<"ERR_FILE_PROCESSING_FAILED">>

\* A submission with neither a question nor a file: history is returned.
SubmitBlank(s) ==
    /\ streams[s].pc \in FreeStates
    /\ UNCHANGED <<memory, vectorstore, qa_chain, disk, stores, nbuilds,
                   streams, bld, chat, ui>>
    /\ qres' = NoResult
    /\ lastBuild' = NoBuild

\* query_kb: the pair is appended, kb.query answers, the reply is set.
QueryKb(s, q) ==
    /\ streams[s].pc \in FreeStates
    /\ Len(ui[s]) < MaxTurns
    /\ Query(q)
    /\ ui' = [ui EXCEPT ![s] = SetReply(Append(@, Pair("", q, <<>>)),
                                        qres'.answer)]
    /\ UNCHANGED chat

\* handle_submit with a file: the pair is appended, the file is read and the
\* model service is asked in one blocking call; the reply is the answer with
\* the time, or the failure of the file.
HandleSubmitFile(s, f, q) ==
    /\ streams[s].pc \in FreeStates
    /\ Len(ui[s]) < MaxTurns
    /\ \E bot \in IF LoadDocument(f) = {} THEN {FileFailedMsg}
                   ELSE {Generate(Prompt(LoadDocument(f), <<>>, q)) \o TimeInfo,
                         FileErrorMsg} :
          ui' = [ui EXCEPT ![s] = SetReply(Append(@, Pair(f, q, Progress)), bot)]
    /\ UNCHANGED <<memory, vectorstore, qa_chain, disk, stores, nbuilds,
                   streams, bld, chat>>
    /\ qres' = NoResult
    /\ lastBuild' = NoBuild

\* handle_submit without a file: kb.query answers and history[-1] is
\* assigned with no pair appended before it; on an empty history the
\* assignment raises and the except branch appends the failure.
HandleSubmit(s, q) ==
    /\ streams[s].pc \in FreeStates
    /\ Query(q)
    /\ ui' = [ui EXCEPT ![s] =
          IF @ = <<>> THEN <<Pair("", q, UploadErrorMsg)>>
          ELSE [@ EXCEPT ![Len(@)] = Pair("", q, qres'.answer)]]
    /\ UNCHANGED chat

\* One browser session served by the blocking callbacks.
NextSubmit ==
    \/ SubmitBlank(1)
    \/ \E q \in SessionQuestions(1) : CanAsk(MaxTurns) /\ QueryKb(1, q)
    \/ \E f \in Files, q \in UploadQuestions : HandleSubmitFile(1, f, q)
    \/ \E q \in SessionQuestions(1) : CanAsk(MaxTurns) /\ HandleSubmit(1, q)
    \/ ClearChat(1)

SpecSubmit == Init /\ [][NextSubmit]_vars

\* The operations on the conversation: query, clear and the resumptions of
\* the query_stream generators SS, over the questions QQ.
QuerySteps(SS, QQ, limit) ==
    \/ \E q \in QQ : CanAsk(limit) /\ Query(q) /\ UNCHANGED <<chat, ui>>
    \/ Clear /\ UNCHANGED <<chat, ui>>
    \/ \E s \in SS, q \in QQ :
          CanAsk(limit) /\ StreamUninit(s, q) /\ UNCHANGED ui
    \/ \E s \in SS, q \in QQ :
          CanAsk(limit) /\ StreamStart(s, q) /\ UNCHANGED ui
    \/ \E s \in SS : StreamNext(s) /\ UNCHANGED ui
    \/ \E s \in SS : StreamRaise(s) /\ UNCHANGED ui
    \/ \E s \in SS : StreamFinish(s) /\ UNCHANGED ui
    \/ \E s \in SS : StreamAbandon(s) /\ UNCHANGED ui

\* The builds: build_knowledge_base and the resumptions of build_kb_stream.
BuildSteps ==
    \/ \E d \in Dirs, rebuild \in BOOLEAN :
          CanBuild /\ BuildKnowledgeBase(d, rebuild)
    \/ \E d \in Dirs, rebuild \in BOOLEAN : CanBuild /\ BuildBadDir(d, rebuild)
    \/ \E d \in Dirs, rebuild \in BOOLEAN : CanBuild /\ BuildStart(d, rebuild)
    \/ BuildLoad
    \/ BuildSplit
    \/ BuildDelete
    \/ BuildCreate
    \/ BuildFail

\* Every operation of the instance in any order, with one stream consumer
\* and one question.
Next == QuerySteps({1}, {"q1"}, MaxTurns) \/ BuildSteps

Spec == Init /\ [][Next]_vars

\* Two query_stream generators of the instance resumed in any order, over
\* two questions; no build.
NextTwo == QuerySteps(Slots, Questions, MaxTurns)

SpecTwo == Init /\ [][NextTwo]_vars

\* A conversation that grows past the history cap; no build.
NextChat == QuerySteps({1}, {"q1"}, HistoryCap + MaxOver + 1)

SpecChat == Init /\ [][NextChat]_vars

\* Every operation of the instance, with the question whose answer is the
\* text of the failure message.
NextEcho == QuerySteps({1}, {"q3"}, MaxTurns) \/ BuildSteps

SpecEcho == Init /\ [][NextEcho]_vars

\* The command line session: the loop of chat reads lines until it ends.
NextCli ==
    \/ \E line \in Lines : ChatExit(line)
    \/ \E line \in Lines : ChatClear(line)
    \/ \E line \in Lines : ChatSkip(line)
    \/ \E line \in Lines : ChatAsk(line, MaxTurns)
    \/ ChatInterrupt

SpecCli == Init /\ [][NextCli]_vars

\* Two browser sessions on the chat tab.
NextUi ==
    \/ \E s \in Slots : \E q \in SessionQuestions(s) :
          CanAsk(MaxTurns) /\ UiAsk(s, q)
    \/ \E s \in Slots : UiNext(s)
    \/ \E s \in Slots : UiFinish(s)
    \/ \E s \in Slots : UiAbandon(s)
    \/ \E s \in Slots : ClearChat(s)

SpecUi == Init /\ [][NextUi]_vars

\* One browser session that submits files, and build_knowledge_base, the
\* build whose list of patterns comes from the configuration.
NextUpload ==
    \/ \E f \in Files, q \in UploadQuestions : UploadFail(1, f, q)
    \/ \E f \in Files, q \in UploadQuestions : UploadStart(1, f, q)
    \/ UploadNext(1)
    \/ UploadEnd(1)
    \/ UploadRaise(1)
    \/ ClearChat(1)
    \/ \E d \in Dirs, rebuild \in BOOLEAN :
          CanBuild /\ BuildKnowledgeBase(d, rebuild)

SpecUpload == Init /\ [][NextUpload]_vars

(***************************************************************************)
(* Properties.                                                             *)
(***************************************************************************)
IsContentItem(it) == it.kind = "content"

\* The texts of the content increments a generator has yielded, in order.
ContentTexts(out) ==
    LET items == SelectSeq(out, IsContentItem)
    IN  [i \in 1..Len(items) |-> items[i].text]

\* The content chunks of a response, in order.
ContentChunks(resp) == SelectSeq(resp, IsContent)

\* C1: a query_stream generator adds nothing to the memory while it is
\* suspended at a content increment; once it has yielded the completion
\* item it has added exactly one turn, the question and the in-order
\* concatenation of the content increments it yielded.
C1_MemoryUpdatedAfterStream ==
    \A s \in Slots :
        /\ streams[s].pc = "streaming" => streams[s].appended = <<>>
        /\ streams[s].pc = "completed" =>
              /\ streams[s].appended =
                    <<HumanMessage(streams[s].q),
                      AIMessage(Join(ContentTexts(streams[s].out)))>>
              /\ streams[s].out[Len(streams[s].out)].kind = "time"

\* A stream has completed after two content increments, over a memory that
\* already held a turn.
C1_Witness ==
    \E s \in Slots :
        /\ streams[s].pc = "completed"
        /\ Len(ContentTexts(streams[s].out)) = 2
        /\ Len(memory) >= 4

\* C2: a query_stream generator that yielded the failure item has added
\* nothing to the memory, whatever it had emitted before, and a call of
\* query that returned the failure message left the memory as it was.
C2_FailureLeavesMemory ==
    /\ \A s \in Slots : streams[s].pc = "failed" => streams[s].appended = <<>>
    /\ qres.outcome = "error" => qres.appended = <<>>

\* A call of query has just failed while a stream that failed after an
\* increment is still suspended.
C2_Witness ==
    /\ qres.outcome = "error"
    /\ \E s \in Slots : /\ streams[s].pc = "failed"
                        /\ Len(ContentTexts(streams[s].out)) >= 1

\* C3: a query_stream generator that its consumer dropped before the
\* completion item has added nothing to the memory.
C3_AbandonedStreamLeavesMemory ==
    \A s \in Slots : streams[s].pc = "abandoned" => streams[s].appended = <<>>

\* A stream was dropped after its last content increment, the completion
\* item not yet pulled.
C3_Witness ==
    \E s \in Slots :
        /\ streams[s].pc = "abandoned"
        /\ ContentTexts(streams[s].out) = ContentChunks(Response(streams[s].q))

\* C4: the history in the prompt of a query and of a query_stream holds at
\* most the cap of recent turns (two messages a turn).
C4_PromptHistoryCapped ==
    /\ qres.prompt.built => Len(qres.prompt.history) <= 2 * HistoryCap
    /\ \A s \in Slots :
          streams[s].prompt.built =>
              Len(streams[s].prompt.history) <= 2 * HistoryCap

\* C5: a build with rebuild true over a persisted collection leaves in the
\* index exactly the chunks that build ingested.
C5_RebuildReplacesIndex ==
    (lastBuild.outcome = "built" /\ lastBuild.rebuild /\ lastBuild.existed)
        => lastBuild.after = Stored(lastBuild.splits, lastBuild.id)

\* C6: a build with rebuild false over a persisted collection, from either
\* entry point, chunks and inserts nothing: the entries of the collection
\* are as they were.
C6_BuildOpensExisting ==
    (lastBuild.kind \in {"kb", "ui"} /\ ~lastBuild.rebuild /\ lastBuild.existed)
        => (lastBuild.splits = {} /\ lastBuild.after = lastBuild.before)

\* C7: with self.vectorstore None, query returns the not-initialized message
\* and no source, and query_stream yields that one item and then ends;
\* neither retrieves, builds a prompt, fails or changes the memory.
C7_UninitializedIndex ==
    [][/\ (vectorstore = NoneVS /\ qres'.outcome # "none") =>
              /\ qres' = [NoResult EXCEPT !.outcome = "uninit",
                                          !.q = qres'.q,
                                          !.answer = NotInitMsg]
              /\ memory' = memory
       /\ \A s \in Slots :
             /\ (vectorstore = NoneVS /\ streams[s].pc \in FreeStates
                   /\ streams'[s] # streams[s]) =>
                   /\ streams'[s] =
                         [IdleStream EXCEPT !.pc = "uninit",
                                            !.q = streams'[s].q,
                                            !.out = <<Item("uninit", NotInitMsg, {})>>]
                   /\ memory' = memory
             /\ (streams[s].pc = "uninit" /\ streams'[s] # streams[s]) =>
                   /\ streams'[s] = IdleStream
                   /\ memory' = memory]_vars

\* query has just returned the not-initialized message while a stream that
\* yielded it is suspended.
C7_Witness ==
    /\ vectorstore = NoneVS
    /\ qres.outcome = "uninit"
    /\ \E s \in Slots : streams[s].pc = "uninit"

\* C8: no query_stream retrieves through a handle on a persist directory
\* that a build has removed.
C8_NoRetrievalFromDeletedIndex ==
    \A s \in Slots : streams[s].prompt.built => ~streams[s].deleted

\* C9: no two query_stream generators of the instance are in flight
\* together: at most one has built its prompt and is suspended at a content
\* increment, its turn not yet added to the memory.
C9_QueriesSerialized ==
    Cardinality({s \in Slots : streams[s].pc = "streaming"}) <= 1

\* C10: a build that goes on to load the files of a directory holding a
\* file that loads is not ended by the files that fail: it reaches the
\* vector store, and once the store is written it holds every chunk of
\* every file that loaded.
C10_LoadFailureDoesNotAbort ==
    LET good == {f \in Glob(lastBuild.dir) : Loads(f)}
    IN  (lastBuild.outcome \in {"nofiles", "nodocs", "built", "failed"}
            /\ good # {})
        => /\ lastBuild.outcome \in {"built", "failed"}
           /\ lastBuild.outcome = "built" =>
                 \A f \in good : \A p \in 1..ChunkCount(f) :
                     [source |-> f, pos |-> p, build |-> lastBuild.id]
                         \in lastBuild.after

\* A build over a directory with a file that fails and files that load has
\* written the vector store.
C10_Witness ==
    /\ lastBuild.outcome = "built"
    /\ \E f \in Glob(lastBuild.dir) : ~Loads(f)
    /\ \E f \in Glob(lastBuild.dir) : Loads(f)

\* C11: a build over a source directory whose collection is what a build of
\* the same directory left does not grow the index, whatever the entry point
\* and the rebuild flag: the index holds as many entries as before.
C11_RepeatedBuildKeepsSize ==
    (/\ lastBuild.kind \in {"kb", "ui"}
     /\ lastBuild.before # {}
     /\ \E id \in 0..MaxBuilds :
           lastBuild.before =
               Stored(Split(LoadDocuments(Glob(lastBuild.dir))), id))
        => Cardinality(lastBuild.after) = Cardinality(lastBuild.before)

\* C12: a build with rebuild false that found no persisted collection (the
\* persist directory or its chroma.sqlite3 absent, the test made at
\* construction) does not open a collection: when the source directory holds
\* a file that loads it goes on to ingest the documents.
C12_NoMarkerBuildsFresh ==
    (/\ lastBuild.kind \in {"kb", "ui"}
     /\ ~lastBuild.rebuild
     /\ ~lastBuild.existed)
        => /\ lastBuild.outcome # "opened"
           /\ (\E f \in Glob(lastBuild.dir) : Loads(f))
                 => lastBuild.outcome \in {"built", "failed"}

\* C13: the answer text a successful query returns is the text the model
\* service generated and the text recorded in the memory for the turn, with
\* no time string appended to it.
C13_AnswerWithoutTime ==
    qres.outcome = "ok" =>
        /\ Len(qres.appended) = 2
        /\ qres.answer = qres.appended[2].content

\* The text the items of a query_stream run to completion for a question
\* concatenate to: the content chunks of the response, then the time.
StreamText(q) ==
    Join(ContentChunks(ResponseTo(StreamPrompt(q)))) \o TimeInfo

\* C14: over the same index, memory and question, the items of a completed
\* query_stream concatenate to the text query returns, and the turn the
\* stream adds to the memory is the turn query adds.
C14_StreamEqualsQuery ==
    /\ \A s \in Slots :
          streams[s].pc = "completed" =>
              Join(AllTexts(streams[s].out)) =
                  Join(ContentChunks(ResponseTo(streams[s].prompt))) \o TimeInfo
    /\ vectorstore.ok =>
          \A q \in Questions :
              /\ StreamText(q) = QueryText(q)
              /\ AddTurn(memory, q,
                         Join(ContentChunks(ResponseTo(StreamPrompt(q)))))
                    = AddTurn(memory, q, Generate(QueryPrompt(q)))

Terminal == {"error", "time"}

\* C15: in the items of a query_stream run the failure item and the
\* completion (time) item exclude each other and either one is the last
\* item, so no content increment follows it; a run that yielded the failure
\* item added nothing to the memory; and the pair the consumer receives for
\* a failure item is not the pair it receives for a content increment.
C15_StreamOutcomes ==
    \A s \in Slots :
        LET out == streams[s].out
        IN  /\ \A i \in 1..Len(out) : out[i].kind \in Terminal => i = Len(out)
            /\ \A i, j \in 1..Len(out) :
                  ~(out[i].kind = "error" /\ out[j].kind = "time")
            /\ (\E i \in 1..Len(out) : out[i].kind = "error")
                  => streams[s].appended = <<>>
            /\ \A i, j \in 1..Len(out) :
                  (out[i].kind = "error" /\ out[j].kind = "content")
                      => Visible(out[i]) # Visible(out[j])

\* C16: a step of query or of a query_stream generator, whatever its
\* outcome, leaves the entries of every collection, the persist directory
\* and self.vectorstore as they were.
C16_RetrievalLeavesIndex ==
    [][(qres'.outcome # "none" \/ streams' # streams)
          => (stores' = stores /\ vectorstore' = vectorstore /\ disk' = disk)]_vars

\* query has just answered over a collection that holds entries, after a
\* stream over it was dropped by its consumer.
C16_Witness ==
    /\ qres.outcome = "ok"
    /\ qres.sources # {}
    /\ \E s \in Slots : streams[s].pc = "abandoned"

\* C17: every step of the chat loop is taken while the loop runs (none
\* after exit or quit); a line that is exit, quit, clear or blank issues no
\* query; exit and quit end the loop and keep the memory; clear empties the
\* memory and the loop reads on; a blank line keeps the memory; and the
\* prompt of the first query after a clear holds no turn.
C17_ChatControlTokens ==
    [][LET line == chat'.line
       IN  /\ chat.pc = "running"
           /\ Lower(line) \in ExitTokens =>
                 /\ chat'.pc = "ended"
                 /\ qres'.outcome = "none"
                 /\ memory' = memory
           /\ Lower(line) \in ClearTokens =>
                 /\ chat'.pc = "running"
                 /\ qres'.outcome = "none"
                 /\ memory' = <<>>
           /\ Strip(line) = "" =>
                 /\ qres'.outcome = "none"
                 /\ memory' = memory
           /\ (chat.cleared /\ qres'.prompt.built) =>
                 qres'.prompt.history = <<>>]_vars

\* The loop has ended by quit after a query that followed a clear of a
\* memory that held turns.
C17_Witness ==
    /\ chat.pc = "ended"
    /\ Lower(chat.line) = "quit"
    /\ chat.dropped
    /\ ~chat.cleared
    /\ Len(memory) = 2

\* C18: a query over an index that holds no entry returns the
\* not-initialized result and builds no prompt, and no query_stream builds
\* a prompt over an empty retrieval from such an index.
C18_EmptyIndexUnavailable ==
    /\ (qres.outcome # "none" /\ Entries(vectorstore) = {})
          => (qres.outcome = "uninit" /\ ~qres.prompt.built)
    /\ \A s \in Slots :
          streams[s].prompt.built => streams[s].prompt.context # {}

\* The questions of session s recorded in a sequence of messages.
RecordedBy(s, messages) ==
    SelectSeq(messages,
              LAMBDA m : m.type = "human"
                           /\ \E q \in SessionQuestions(s) : m.content = <<q>>)

\* C19: the history in the prompt of a session's query holds no turn that
\* another session recorded, and clear_chat of a session leaves in the
\* memory the turns the other sessions recorded.
C19_MemoryPerSession ==
    [][/\ \A s, t \in Slots :
             (s # t /\ streams'[s].prompt.built)
                 => RecordedBy(t, streams'[s].prompt.history) = <<>>
       /\ \A s, t \in Slots :
             (s # t /\ ui[s] # <<>> /\ ui'[s] = <<>>)
                 => RecordedBy(t, memory') = RecordedBy(t, memory)]_vars

\* C20: _load_document returns nothing for a file whose extension has no
\* loader; the chunks and the entries of a build have no such file as their
\* source; and a submit with such a file shows the file-load-failed reply
\* and calls neither the model service nor the memory.
C20_UnsupportedExtension ==
    [][/\ \A f \in Files : Ext(f) \notin SupportedExt => LoadDocument(f) = {}
       /\ \A c \in lastBuild'.splits \cup lastBuild'.after :
             Ext(c.source) \in SupportedExt
       /\ \A s \in Slots :
             (/\ Len(ui'[s]) = Len(ui[s]) + 1
              /\ ui'[s][Len(ui'[s])].file # ""
              /\ Ext(ui'[s][Len(ui'[s])].file) \notin SupportedExt)
                 => /\ ui'[s][Len(ui'[s])].bot = FileFailedMsg
                    /\ streams' = streams
                    /\ memory' = memory]_vars

\* The session was answered about a file that loads and then shown the
\* file-load-failed reply for a file whose extension has no loader.
C20_Witness ==
    \E s \in Slots :
        /\ Len(ui[s]) = 2
        /\ Ext(ui[s][1].file) \in SupportedExt
        /\ HasTime(ui[s][1].bot)
        /\ Ext(ui[s][2].file) \notin SupportedExt
        /\ ui[s][2].bot = FileFailedMsg
        /\ streams[s].pc = "idle"

\* C21: a query that answered retrieved through the handle installed in
\* self.vectorstore, so from the entries of the installed index; and in
\* every state the prompts query and query_stream would make hold the same
\* retrieved documents.
C21_QueriesUseInstalledIndex ==
    /\ qres.outcome = "ok" =>
          /\ qa_chain = vectorstore
          /\ qres.sources = Entries(vectorstore)
    /\ vectorstore.ok =>
          \A q \in Questions :
              QueryPrompt(q).context = StreamPrompt(q).context

\* The answers the model service gives to question q: over a history within
\* the cap and over a longer one.
AnswersTo(q) ==
    {Join(ResponseTo([question |-> q, history |-> h])) :
        h \in {<<>>, [i \in 1..(HistoryCap + 1) |-> HumanMessage(q)]}}

\* C22: the memory consists of complete turns only: it holds an even number
\* of messages, every odd position is a user question and the position after
\* it is the answer generated for that same question.
C22_MemoryCompleteTurns ==
    /\ Len(memory) % 2 = 0
    /\ \A i \in 1..Len(memory) :
          i % 2 = 1 =>
             /\ memory[i].type = "human"
             /\ memory[i + 1].type = "ai"
             /\ \E q \in Questions \cup {"q3"} :
                   /\ memory[i] = HumanMessage(q)
                   /\ memory[i + 1].content \in AnswersTo(q)

\* Two streams advanced alternately: stream 1 started on the empty memory and
\* is suspended after two increments while stream 2 has completed its turn.
C22_Witness ==
    /\ streams[1].pc = "streaming"
    /\ streams[1].prompt.history = <<>>
    /\ Len(streams[1].acc) = 2
    /\ streams[2].pc = "completed"
    /\ memory = AddTurn(<<>>, streams[2].q, Join(streams[2].acc))

\* The entries of history before the last one.
Earlier(history) == SubSeq(history, 1, Len(history) - 1)

\* C23: a step of a callback treats the history of every session as
\* append-only per submission: the history is left as it is, or cleared by
\* clear_chat, or one entry is appended after the entries it had, or the
\* reply of its last entry is updated by the callback that appended that
\* entry and is still running.
C23_HistoryAppendOnly ==
    [][\A s \in Slots :
          \/ ui'[s] = ui[s]
          \/ ui'[s] = <<>>
          \/ /\ Len(ui'[s]) = Len(ui[s]) + 1
             /\ Earlier(ui'[s]) = ui[s]
          \/ /\ streams[s].pc \notin FreeStates
             /\ Len(ui'[s]) = Len(ui[s])
             /\ Earlier(ui'[s]) = Earlier(ui[s])]_vars

\* C24: a build_knowledge_base call that finds no file or loads no document
\* leaves the index handle, the persist directory and its collections, the
\* cached chain and the memory as they were, so the prompt a query makes
\* after it is the prompt it would have made before.
C24_FailedBuildLeavesIndex ==
    [][(/\ lastBuild'.kind = "kb"
        /\ lastBuild'.outcome \in {"nofiles", "nodocs"})
       => /\ vectorstore' = vectorstore
          /\ disk' = disk
          /\ stores' = stores
          /\ qa_chain' = qa_chain
          /\ memory' = memory
          /\ \A q \in Questions :
                /\ QueryPrompt(q)' = QueryPrompt(q)
                /\ StreamPrompt(q)' = StreamPrompt(q)]_vars

\* build_knowledge_base with rebuild set has loaded no document while the
\* instance holds an index with entries.
C24_Witness ==
    /\ lastBuild.kind = "kb"
    /\ lastBuild.outcome = "nodocs"
    /\ lastBuild.rebuild
    /\ vectorstore.ok
    /\ Entries(vectorstore) # {}

=============================================================================
